---- MODULE Spec2Model ----
(***************************************************************************)
(* Model of src/main.py: the /procesar-cv/ endpoint (procesar_cv), the     *)
(* text extraction with OCR fallback (pdf_to_text_or_ocr) and the          *)
(* classification call (get_json_from_openai).                             *)
(*                                                                         *)
(* Python strings are sequences of one-character strings.  JSON answers    *)
(* of the classification model are sequences of lexical tokens.            *)
(***************************************************************************)
EXTENDS Integers, Sequences, FiniteSets, TLC

\* Largest page count of an uploaded document.
MaxPages == 3

VARIABLES
    pc,          \* position of the request inside procesar_cv
    numPages,    \* page count of the uploaded document
    fileExists,  \* temp_<filename> exists on disk
    tempCreated, \* history: open(temp_path, "wb") has created the file
    text,        \* local `text` of pdf_to_text_or_ocr
    idx,         \* loop index of the current page loop (0-based)
    plumberOpen, \* the pdfplumber handle is open
    fitzOpen,    \* the fitz handle is open
    fitzOpened,  \* history: fitz.open(pdf_path) was called
    layerLog,    \* history: outcome of page.extract_text() per visited page
    ocrLog,      \* history: one entry per OCR loop iteration
    layerText,   \* history: `text` as tested on line 37
    extracted,   \* return value of pdf_to_text_or_ocr
    classifyCalls, \* history: number of classification model calls
    classifyFailed, \* history: the classification model call raised
    result,      \* return value of get_json_from_openai
    normalized,  \* history: lines 178-183 ran on `result`
    exc,         \* message of the exception caught on line 185, or <<>>
    response,    \* the JSONResponse returned by procesar_cv
    plumberOpens,  \* history: number of pdfplumber.open calls
    plumberFailed, \* history: pdfplumber.open raised
    fitzOpens,   \* history: number of fitz.open calls
    fitzReleased, \* the fitz handle was closed by the finalizer of `doc`
    sent,        \* history: the content passed to get_json_from_openai
    reqs,        \* concurrent requests: position, filename, open file, outcome
    paths,       \* working directory: the file each temp path names
    inodes       \* content of each file on disk

requestVars == <<pc, numPages, fileExists, tempCreated, text, idx, plumberOpen,
          fitzOpen, fitzOpened, layerLog, ocrLog, layerText, extracted,
          classifyCalls, classifyFailed, result, normalized, exc, response,
          plumberOpens, plumberFailed, fitzOpens, fitzReleased, sent>>

vars == <<requestVars, reqs, paths, inodes>>

----------------------------------------------------------------------------
\* Strings

\* Characters str.strip() removes.
Whitespace == {" ", "\n"}

RECURSIVE LStrip(_)
LStrip(s) ==
    IF s = <<>> THEN s
    ELSE IF Head(s) \in Whitespace THEN LStrip(Tail(s)) ELSE s

RECURSIVE RStrip(_)
RStrip(s) ==
    IF s = <<>> THEN s
    ELSE IF s[Len(s)] \in Whitespace THEN RStrip(SubSeq(s, 1, Len(s) - 1)) ELSE s

\* str.strip()
Strip(s) == RStrip(LStrip(s))

\* Python truthiness of a value that is a str or None.
Truthy(v) == v.kind = "text" /\ v.val # <<>>

\* What page.extract_text() can do: return a string, return None, raise.
LayerOutcomes ==
    {[kind |-> "text", val |-> v] : v \in {<<"a">>, <<"b", " ">>, <<" ">>}}
    \cup {[kind |-> "none", val |-> <<>>], [kind |-> "error", val |-> <<>>]}

\* What one OCR loop iteration can meet: the content is a string or None,
\* the render raises before the model call (lines 43-48), or the model call
\* or the reading of its response raises (lines 50-62).
OcrOutcomes ==
    {[kind |-> "text", val |-> v] : v \in {<<"c">>, <<" ", "d">>}}
    \cup {[kind |-> k, val |-> <<>>] :
             k \in {"none", "render_error", "call_error"}}

----------------------------------------------------------------------------
\* pdf_to_text_or_ocr

\* AppendLayerText with the page text put in front of `text`.
PrependLayerText(t, v) ==
    IF Truthy(v) THEN v.val \o <<"\n">> \o t ELSE t

\* Lines 29-33: a truthy page text is appended with a line break; None, ""
\* and a raising page leave `text` as it was.
AppendLayerText(t, v) ==
    IF Truthy(v) THEN t \o v.val \o <<"\n">> ELSE t

\* NeedsOcr without the test of line 37.
NeedsOcrAlways(t) == TRUE

\* Line 37: `if not text.strip()`.
NeedsOcr(t) == Strip(t) = <<>>

\* OcrPageCount with the last page left out.
OcrPageCountShort(n) == IF n > 0 THEN n - 1 ELSE 0

\* Line 41: range(len(doc)).
OcrPageCount(n) == n

\* AppendOcrText with the page text put in front of `text`.
PrependOcrText(t, v) ==
    IF Truthy(v) THEN v.val \o <<"\n">> \o t ELSE t

\* AppendOcrText with a line break appended for a page whose OCR raised.
AppendOcrTextOrEmptyLine(t, v) ==
    IF Truthy(v) THEN t \o v.val \o <<"\n">>
    ELSE IF v.kind \in {"render_error", "call_error"} THEN t \o <<"\n">>
    ELSE t

\* Lines 62-66: as for the text layer; every failure of the iteration is
\* caught and leaves `text` as it was.
AppendOcrText(t, v) ==
    IF Truthy(v) THEN t \o v.val \o <<"\n">> ELSE t

\* The iteration reached openai.chat.completions.create (line 50).
ModelCalled(v) == v.kind # "render_error"

\* OpenPlumber without the except of line 34: the failure reaches line 185.
OpenPlumberRaising ==
    /\ pc = "plumber_open"
    /\ plumberOpens' = plumberOpens + 1
    /\ \/ /\ plumberOpen' = TRUE
          /\ plumberFailed' = FALSE
          /\ idx' = 0
          /\ exc' = exc
          /\ pc' = "layer_page"
       \/ /\ plumberOpen' = FALSE
          /\ plumberFailed' = TRUE
          /\ idx' = idx
          /\ exc' = <<"plumber_failed">>
          /\ pc' = "except"
    /\ UNCHANGED <<numPages, fileExists, tempCreated, text, fitzOpen,
                   fitzOpened, layerLog, ocrLog, layerText, extracted,
                   classifyCalls, classifyFailed, result, normalized,
                   response, fitzOpens, fitzReleased, sent, reqs, paths,
                   inodes>>

\* Line 26: pdfplumber.open; a failure is caught on line 34.
OpenPlumber ==
    /\ pc = "plumber_open"
    /\ plumberOpens' = plumberOpens + 1
    /\ \/ /\ plumberOpen' = TRUE
          /\ plumberFailed' = FALSE
          /\ idx' = 0
          /\ pc' = "layer_page"
       \/ /\ plumberOpen' = FALSE
          /\ plumberFailed' = TRUE
          /\ idx' = idx
          /\ pc' = "check_text"
    /\ UNCHANGED <<numPages, fileExists, tempCreated, text, fitzOpen,
                   fitzOpened, layerLog, ocrLog, layerText, extracted,
                   classifyCalls, classifyFailed, result, normalized, exc,
                   response, fitzOpens, fitzReleased, sent, reqs, paths,
                   inodes>>

\* LayerPage with the loop of line 27 never leaving its page.
LayerPageNoAdvance ==
    /\ pc = "layer_page"
    /\ idx < numPages
    /\ \E v \in LayerOutcomes :
          /\ text' = AppendLayerText(text, v)
          /\ layerLog' = Append(layerLog, v)
    /\ idx' = idx
    /\ UNCHANGED <<pc, numPages, fileExists, tempCreated, plumberOpen,
                   fitzOpen, fitzOpened, ocrLog, layerText, extracted,
                   classifyCalls, classifyFailed, result, normalized, exc,
                   response, plumberOpens, plumberFailed, fitzOpens,
                   fitzReleased, sent, reqs, paths, inodes>>

\* Lines 27-33: one iteration of the text-layer loop.
LayerPage ==
    /\ pc = "layer_page"
    /\ idx < numPages
    /\ \E v \in LayerOutcomes :
          /\ text' = AppendLayerText(text, v)
          /\ layerLog' = Append(layerLog, v)
    /\ idx' = idx + 1
    /\ UNCHANGED <<pc, numPages, fileExists, tempCreated, plumberOpen,
                   fitzOpen, fitzOpened, ocrLog, layerText, extracted,
                   classifyCalls, classifyFailed, result, normalized, exc,
                   response, plumberOpens, plumberFailed, fitzOpens,
                   fitzReleased, sent, reqs, paths, inodes>>

\* End of the `with` block of line 26: the handle is closed.
LayerDone ==
    /\ pc = "layer_page"
    /\ idx >= numPages
    /\ plumberOpen' = FALSE
    /\ pc' = "check_text"
    /\ UNCHANGED <<numPages, fileExists, tempCreated, text, idx, fitzOpen,
                   fitzOpened, layerLog, ocrLog, layerText, extracted,
                   classifyCalls, classifyFailed, result, normalized, exc,
                   response, plumberOpens, plumberFailed, fitzOpens,
                   fitzReleased, sent, reqs, paths, inodes>>

\* Line 37.
CheckText ==
    /\ pc = "check_text"
    /\ layerText' = text
    /\ pc' = IF NeedsOcr(text) THEN "fitz_open" ELSE "return_text"
    /\ UNCHANGED <<numPages, fileExists, tempCreated, text, idx, plumberOpen,
                   fitzOpen, fitzOpened, layerLog, ocrLog, extracted,
                   classifyCalls, classifyFailed, result, normalized, exc,
                   response, plumberOpens, plumberFailed, fitzOpens,
                   fitzReleased, sent, reqs, paths, inodes>>

\* Line 40: fitz.open; a failure is caught on line 67.  The handle is never
\* closed by the function.
OpenFitz ==
    /\ pc = "fitz_open"
    /\ fitzOpened' = TRUE
    /\ fitzOpens' = fitzOpens + 1
    /\ \/ /\ fitzOpen' = TRUE
          /\ idx' = 0
          /\ pc' = "ocr_page"
       \/ /\ fitzOpen' = FALSE
          /\ idx' = idx
          /\ pc' = "return_text"
    /\ UNCHANGED <<numPages, fileExists, tempCreated, text, plumberOpen,
                   layerLog, ocrLog, layerText, extracted, classifyCalls,
                   classifyFailed, result, normalized, exc, response,
                   plumberOpens, plumberFailed, fitzReleased, sent, reqs,
                   paths, inodes>>

\* OcrPage without the except of line 65: a raising page ends the loop.
OcrPageAbortOnFailure ==
    /\ pc = "ocr_page"
    /\ idx < OcrPageCount(numPages)
    /\ \E v \in OcrOutcomes :
          /\ text' = AppendOcrText(text, v)
          /\ ocrLog' = Append(ocrLog, [page |-> idx, out |-> v])
          /\ pc' = IF v.kind \in {"render_error", "call_error"}
                   THEN "return_text" ELSE pc
    /\ idx' = idx + 1
    /\ UNCHANGED <<numPages, fileExists, tempCreated, plumberOpen, fitzOpen,
                   fitzOpened, layerLog, layerText, extracted, classifyCalls,
                   classifyFailed, result, normalized, exc, response,
                   plumberOpens, plumberFailed, fitzOpens, fitzReleased,
                   sent, reqs, paths, inodes>>

\* Lines 41-66: one iteration of the OCR loop.
OcrPage ==
    /\ pc = "ocr_page"
    /\ idx < OcrPageCount(numPages)
    /\ \E v \in OcrOutcomes :
          /\ text' = AppendOcrText(text, v)
          /\ ocrLog' = Append(ocrLog, [page |-> idx, out |-> v])
    /\ idx' = idx + 1
    /\ UNCHANGED <<pc, numPages, fileExists, tempCreated, plumberOpen,
                   fitzOpen, fitzOpened, layerLog, layerText, extracted,
                   classifyCalls, classifyFailed, result, normalized, exc,
                   response, plumberOpens, plumberFailed, fitzOpens,
                   fitzReleased, sent, reqs, paths, inodes>>

\* The OCR loop is exhausted.
OcrDone ==
    /\ pc = "ocr_page"
    /\ idx >= OcrPageCount(numPages)
    /\ pc' = "return_text"
    /\ UNCHANGED <<numPages, fileExists, tempCreated, text, idx, plumberOpen,
                   fitzOpen, fitzOpened, layerLog, ocrLog, layerText,
                   extracted, classifyCalls, classifyFailed, result,
                   normalized, exc, response, plumberOpens, plumberFailed,
                   fitzOpens, fitzReleased, sent, reqs, paths, inodes>>

\* ReturnText with the caller going on to line 175 without the call of
\* line 172.
ReturnTextSkipClassify ==
    /\ pc = "return_text"
    /\ extracted' = Strip(text)
    /\ pc' = "remove_temp"
    /\ UNCHANGED <<numPages, fileExists, tempCreated, text, idx, plumberOpen,
                   fitzOpen, fitzOpened, layerLog, ocrLog, layerText,
                   classifyCalls, classifyFailed, result, normalized, exc,
                   response, plumberOpens, plumberFailed, fitzOpens,
                   fitzReleased, sent, reqs, paths, inodes>>

\* Line 70: return text.strip().
ReturnText ==
    /\ pc = "return_text"
    /\ extracted' = Strip(text)
    /\ pc' = "classify"
    /\ UNCHANGED <<numPages, fileExists, tempCreated, text, idx, plumberOpen,
                   fitzOpen, fitzOpened, layerLog, ocrLog, layerText,
                   classifyCalls, classifyFailed, result, normalized, exc,
                   response, plumberOpens, plumberFailed, fitzOpens,
                   fitzReleased, sent, reqs, paths, inodes>>

----------------------------------------------------------------------------
\* JSON

\* A parsed value is [kind, members]: an object with its members as a set
\* of <<key, value>> pairs, null, or the float nan.  The value of a member
\* is a sequence.
JsonObject(m) == [kind |-> "object", members |-> m]
JsonNull == [kind |-> "null", members |-> {}]
JsonNaN == [kind |-> "nan", members |-> {}]

\* Fields of informacion_general in the prompt (lines 122-131; the accents
\* of the source's field names are dropped).
ProfileFields ==
    <<"nombre", "correo", "telefono", "educacion", "experiencia",
      "habilidades", "certificaciones", "idiomas">>

\* Lexical tokens of an answer that stand for one complete `"key": value`
\* member of the answer's object.  G is informacion_general with every
\* field of the prompt, Gn the same member holding nombre only.
MemberTokens == {"G", "Gn", "Ct", "Cf", "M"}

MemberKey(tok) ==
    CASE tok \in {"G", "Gn"} -> "informacion_general"
      [] tok \in {"Ct", "Cf"} -> "candidato"
      [] OTHER -> "motivo_no_candidato"

MemberVal(tok) ==
    CASE tok = "G" -> ProfileFields
      [] tok = "Gn" -> <<"nombre">>
      [] tok = "Ct" -> <<"true">>
      [] tok = "Cf" -> <<"false">>
      [] OTHER -> <<>>

\* JSON whitespace between tokens is skipped by the parser.
RECURSIVE DropWs(_)
DropWs(s) ==
    IF s = <<>> THEN s
    ELSE IF Head(s) \in Whitespace THEN DropWs(Tail(s))
    ELSE <<Head(s)>> \o DropWs(Tail(s))

\* dict semantics of json.loads: a repeated key keeps the last value.
PutMember(m, tok) ==
    {p \in m : p[1] # MemberKey(tok)} \cup {<<MemberKey(tok), MemberVal(tok)>>}

\* member ("," member)*, else a decode error.
RECURSIVE ParseMembers(_, _)
ParseMembers(s, m) ==
    IF s = <<>> \/ Head(s) \notin MemberTokens
    THEN [ok |-> FALSE, value |-> JsonNull]
    ELSE IF Len(s) = 1
    THEN [ok |-> TRUE, value |-> JsonObject(PutMember(m, Head(s)))]
    ELSE IF s[2] = ","
    THEN ParseMembers(SubSeq(s, 3, Len(s)), PutMember(m, Head(s)))
    ELSE [ok |-> FALSE, value |-> JsonNull]

\* json.loads(s): ok is FALSE where it raises JSONDecodeError.  The literal
\* NaN, which is not JSON, is accepted and parsed to the float nan.
JsonLoads(s) ==
    LET t == DropWs(s) IN
    IF t = <<"null">> THEN [ok |-> TRUE, value |-> JsonNull]
    ELSE IF t = <<"NaN">> THEN [ok |-> TRUE, value |-> JsonNaN]
    ELSE IF Len(t) >= 2 /\ t[1] = "{" /\ t[Len(t)] = "}"
    THEN IF Len(t) = 2 THEN [ok |-> TRUE, value |-> JsonObject({})]
         ELSE ParseMembers(SubSeq(t, 2, Len(t) - 1), {})
    ELSE [ok |-> FALSE, value |-> JsonNull]

\* Strings the classification model can answer with.
Answers ==
    { <<"{", "G", ",", "Ct", ",", "M", "}">>,
      <<" ", "{", "M", ",", " ", "Cf", ",", "G", "}", "\n">>,
      <<"{", "Ct", ",", "Cf", "}">>,
      <<"{", "Gn", ",", "Ct", ",", "M", "}">>,
      <<"null">>,
      <<"NaN">>,
      <<>>,
      <<"x", " ", "{", "G", ",", "Ct", ",", "M", "}">>,
      <<"{", "G", ",", "Ct", "\n">>,
      <<"{", "G", ",", "}">> }

\* Keys of the ClassificationResult schema (prompt, lines 121-134).
SchemaKeys == {"informacion_general", "candidato", "motivo_no_candidato"}

MatchesSchema(v) ==
    v.kind = "object" /\ {p[1] : p \in v.members} = SchemaKeys

----------------------------------------------------------------------------
\* get_json_from_openai

\* Values of `result`: a str, None, or the dict of line 153.
StrResult(s) == [type |-> "str", val |-> s]
NoneResult == [type |-> "none", val |-> <<>>]
DictResult == [type |-> "dict", val |-> <<>>]

\* OpenAIFailedDict with the value the specification names.
ModelCallFailedDict == JsonObject({<<"error", <<"model_call_failed">>>>})

\* Line 153: the dict returned when the call raises.
OpenAIFailedDict ==
    JsonObject({<<"error", <<"openai_failed">>>>, <<"raw_response", <<>>>>})

\* Classify with one more call after a call that raised.
ClassifyRetrying ==
    /\ pc = "classify"
    /\ sent' = extracted
    /\ classifyCalls' = classifyCalls + 1
    /\ \/ /\ \E s \in Answers : result' = StrResult(s)
          /\ classifyFailed' = FALSE
          /\ pc' = "remove_temp"
       \/ /\ result' = NoneResult
          /\ classifyFailed' = FALSE
          /\ pc' = "remove_temp"
       \/ /\ result' = DictResult
          /\ classifyFailed' = TRUE
          /\ pc' = IF classifyCalls = 0 THEN "classify" ELSE "remove_temp"
    /\ UNCHANGED <<numPages, fileExists, tempCreated, text, idx, plumberOpen,
                   fitzOpen, fitzOpened, layerLog, ocrLog, layerText,
                   extracted, normalized, exc, response, plumberOpens,
                   plumberFailed, fitzOpens, fitzReleased, reqs, paths,
                   inodes>>

\* Classify with no call made for an empty text.
ClassifySkipEmpty ==
    /\ pc = "classify"
    /\ \/ /\ extracted = <<>>
          /\ result' = DictResult
          /\ classifyFailed' = FALSE
          /\ UNCHANGED <<sent, classifyCalls>>
       \/ /\ extracted # <<>>
          /\ sent' = extracted
          /\ classifyCalls' = classifyCalls + 1
          /\ \/ /\ \E s \in Answers : result' = StrResult(s)
                /\ classifyFailed' = FALSE
             \/ /\ result' = NoneResult
                /\ classifyFailed' = FALSE
             \/ /\ result' = DictResult
                /\ classifyFailed' = TRUE
    /\ pc' = "remove_temp"
    /\ UNCHANGED <<numPages, fileExists, tempCreated, text, idx, plumberOpen,
                   fitzOpen, fitzOpened, layerLog, ocrLog, layerText,
                   extracted, normalized, exc, response, plumberOpens,
                   plumberFailed, fitzOpens, fitzReleased, reqs, paths,
                   inodes>>

\* Lines 143-153.
Classify ==
    /\ pc = "classify"
    /\ sent' = extracted
    /\ classifyCalls' = classifyCalls + 1
    /\ \/ /\ \E s \in Answers : result' = StrResult(s)
          /\ classifyFailed' = FALSE
       \/ /\ result' = NoneResult
          /\ classifyFailed' = FALSE
       \/ /\ result' = DictResult
          /\ classifyFailed' = TRUE
    /\ pc' = "remove_temp"
    /\ UNCHANGED <<numPages, fileExists, tempCreated, text, idx, plumberOpen,
                   fitzOpen, fitzOpened, layerLog, ocrLog, layerText,
                   extracted, normalized, exc, response, plumberOpens,
                   plumberFailed, fitzOpens, fitzReleased, reqs, paths,
                   inodes>>

----------------------------------------------------------------------------
\* procesar_cv

NoResponse == [status |-> 0, body |-> JsonNull]

\* RawEnvelope with the answer trimmed.
RawEnvelopeTrimmed(s) == JsonObject({<<"raw_response", Strip(s)>>})

\* Line 182.
RawEnvelope(s) == JsonObject({<<"raw_response", s>>})

\* JSONResponse(content=v) renders v with allow_nan=False when it is
\* constructed, and raises ValueError on nan.
Renders(v) == v.kind # "nan"

\* Normalize with the answer's informacion_general completed to the fields
\* of the prompt.
NormalizeWithDefaults(r) ==
    IF r.type = "str"
    THEN IF JsonLoads(r.val).ok /\ Renders(JsonLoads(r.val).value)
         THEN [status |-> 200,
               body |-> [kind |-> JsonLoads(r.val).value.kind,
                         members |->
                            {q \in JsonLoads(r.val).value.members :
                                q[1] # "informacion_general"}
                            \cup {<<"informacion_general", ProfileFields>>}]]
         ELSE [status |-> 200, body |-> RawEnvelope(r.val)]
    ELSE IF r.type = "dict"
         THEN [status |-> 200, body |-> OpenAIFailedDict]
         ELSE [status |-> 200, body |-> JsonNull]

\* Normalize with every str answer wrapped, parsed or not.
NormalizeWrapAll(r) ==
    IF r.type = "str"
    THEN [status |-> 200, body |-> RawEnvelope(r.val)]
    ELSE IF r.type = "dict"
         THEN [status |-> 200, body |-> OpenAIFailedDict]
         ELSE [status |-> 200, body |-> JsonNull]

\* Lines 178-183: the response built from `result`.  The bare except of
\* line 181 catches the decode error and the render error alike.
Normalize(r) ==
    IF r.type = "str"
    THEN IF JsonLoads(r.val).ok /\ Renders(JsonLoads(r.val).value)
         THEN [status |-> 200, body |-> JsonLoads(r.val).value]
         ELSE [status |-> 200, body |-> RawEnvelope(r.val)]
    ELSE IF r.type = "dict"
         THEN [status |-> 200, body |-> OpenAIFailedDict]
         ELSE [status |-> 200, body |-> JsonNull]

\* ExceptResponse without the status_code argument.
ExceptResponseOk(msg) ==
    [status |-> 200, body |-> JsonObject({<<"error", msg>>})]

\* Line 186.
ExceptResponse(msg) ==
    [status |-> 500, body |-> JsonObject({<<"error", msg>>})]

\* Line 165: open(temp_path, "wb") creates or truncates the file.
OpenTemp ==
    /\ pc = "open_temp"
    /\ \/ /\ fileExists' = TRUE
          /\ tempCreated' = TRUE
          /\ exc' = exc
          /\ pc' = "write_temp"
       \/ /\ exc' = <<"open_failed">>
          /\ pc' = "except"
          /\ UNCHANGED <<fileExists, tempCreated>>
    /\ UNCHANGED <<numPages, text, idx, plumberOpen, fitzOpen, fitzOpened,
                   layerLog, ocrLog, layerText, extracted, classifyCalls,
                   classifyFailed, result, normalized, response,
                   plumberOpens, plumberFailed, fitzOpens, fitzReleased,
                   sent, reqs, paths, inodes>>

\* Line 166: f.write(await file.read()); the `with` closes the file whether
\* or not the body raises.
WriteTemp ==
    /\ pc = "write_temp"
    /\ \/ /\ exc' = exc
          /\ pc' = "plumber_open"
       \/ /\ \E m \in {<<"read_failed">>, <<"write_failed">>} : exc' = m
          /\ pc' = "except"
    /\ UNCHANGED <<numPages, fileExists, tempCreated, text, idx, plumberOpen,
                   fitzOpen, fitzOpened, layerLog, ocrLog, layerText,
                   extracted, classifyCalls, classifyFailed, result,
                   normalized, response, plumberOpens, plumberFailed,
                   fitzOpens, fitzReleased, sent, reqs, paths, inodes>>

\* Line 175: os.remove(temp_path).
RemoveTemp ==
    /\ pc = "remove_temp"
    /\ \/ /\ fileExists' = FALSE
          /\ exc' = exc
          /\ pc' = "respond"
       \/ /\ fileExists' = fileExists
          /\ exc' = <<"remove_failed">>
          /\ pc' = "except"
    /\ UNCHANGED <<numPages, tempCreated, text, idx, plumberOpen, fitzOpen,
                   fitzOpened, layerLog, ocrLog, layerText, extracted,
                   classifyCalls, classifyFailed, result, normalized,
                   response, plumberOpens, plumberFailed, fitzOpens,
                   fitzReleased, sent, reqs, paths, inodes>>

\* Lines 178-183.
Respond ==
    /\ pc = "respond"
    /\ normalized' = TRUE
    /\ response' = Normalize(result)
    /\ pc' = "done"
    /\ UNCHANGED <<numPages, fileExists, tempCreated, text, idx, plumberOpen,
                   fitzOpen, fitzOpened, layerLog, ocrLog, layerText,
                   extracted, classifyCalls, classifyFailed, result, exc,
                   plumberOpens, plumberFailed, fitzOpens, fitzReleased,
                   sent, reqs, paths, inodes>>

\* Lines 185-186.
Except ==
    /\ pc = "except"
    /\ response' = ExceptResponse(exc)
    /\ pc' = "done"
    /\ UNCHANGED <<numPages, fileExists, tempCreated, text, idx, plumberOpen,
                   fitzOpen, fitzOpened, layerLog, ocrLog, layerText,
                   extracted, classifyCalls, classifyFailed, result,
                   normalized, exc, plumberOpens, plumberFailed, fitzOpens,
                   fitzReleased, sent, reqs, paths, inodes>>

----------------------------------------------------------------------------
\* One request on a document of any page count up to MaxPages.
RequestInit ==
    /\ pc = "open_temp"
    /\ numPages \in 0..MaxPages
    /\ fileExists = FALSE
    /\ tempCreated = FALSE
    /\ text = <<>>
    /\ idx = 0
    /\ plumberOpen = FALSE
    /\ fitzOpen = FALSE
    /\ fitzOpened = FALSE
    /\ layerLog = <<>>
    /\ ocrLog = <<>>
    /\ layerText = <<>>
    /\ extracted = <<>>
    /\ classifyCalls = 0
    /\ classifyFailed = FALSE
    /\ result = NoneResult
    /\ normalized = FALSE
    /\ exc = <<>>
    /\ response = NoResponse
    /\ plumberOpens = 0
    /\ plumberFailed = FALSE
    /\ fitzOpens = 0
    /\ fitzReleased = FALSE
    /\ sent = <<>>

\* The request alone: no other upload is in flight.
Init ==
    /\ RequestInit
    /\ reqs = <<>>
    /\ paths = <<>>
    /\ inodes = <<>>

Next ==
    \/ OpenTemp
    \/ WriteTemp
    \/ OpenPlumber
    \/ LayerPage
    \/ LayerDone
    \/ CheckText
    \/ OpenFitz
    \/ OcrPage
    \/ OcrDone
    \/ ReturnText
    \/ Classify
    \/ RemoveTemp
    \/ Respond
    \/ Except

Spec == Init /\ [][Next]_vars

\* Lines 40-70: `doc` is a local of pdf_to_text_or_ocr that the function
\* never closes; once the function has returned, the handle is closed when
\* the interpreter finalizes the object, at a time the code does not fix.
Finalize ==
    /\ pc \in {"classify", "remove_temp", "respond", "except", "done"}
    /\ fitzOpen
    /\ ~fitzReleased
    /\ fitzReleased' = TRUE
    /\ UNCHANGED <<pc, numPages, fileExists, tempCreated, text, idx,
                   plumberOpen, fitzOpen, fitzOpened, layerLog, ocrLog,
                   layerText, extracted, classifyCalls, classifyFailed,
                   result, normalized, exc, response, plumberOpens,
                   plumberFailed, fitzOpens, sent, reqs, paths, inodes>>

\* The request together with the finalizer of `doc`.  Spec leaves the
\* finalizer out: it changes fitzReleased only.
NextHandles == Next \/ Finalize

SpecHandles == Init /\ [][NextHandles]_vars

----------------------------------------------------------------------------
\* Two uploads in flight on one event loop

\* The requests, each named after the bytes it uploads.
Requests == {"A", "B"}

\* Values of file.filename.
Filenames == {"cv.pdf", "b.pdf"}

\* Line 164: temp_path = f"temp_{file.filename}".
TempPath(name) == <<"temp_", name>>

\* Line 160: a request as the handler receives it.
NewRequest(name) ==
    [pc |-> "start", filename |-> name, fd |-> "none", seen |-> "unread",
     sent |-> "unsent", removed |-> "none", status |-> 0]

\* procesar_cv is a coroutine of a single event loop: a request runs from
\* its start or from its resumption until it awaits (line 166) or returns,
\* and no other request runs meanwhile.
LoopFree(r) ==
    \A q \in Requests \ {r} : reqs[q].pc \in {"start", "await", "done"}

\* Lines 164-166 up to the await: open(temp_path, "wb") creates the file,
\* or truncates the file the path already names; the request then awaits
\* file.read() with the file open.
PairOpen(r) ==
    /\ reqs[r].pc = "start"
    /\ LoopFree(r)
    /\ LET path == TempPath(reqs[r].filename)
           file == IF paths[path] = "none" THEN r ELSE paths[path]
       IN  /\ paths' = [paths EXCEPT ![path] = file]
           /\ inodes' = [inodes EXCEPT ![file] = "empty"]
           /\ reqs' = [reqs EXCEPT ![r].pc = "await", ![r].fd = file]
    /\ UNCHANGED requestVars

\* Line 166: the event loop resumes the request with the uploaded bytes.
PairRead(r) ==
    /\ reqs[r].pc = "await"
    /\ LoopFree(r)
    /\ reqs' = [reqs EXCEPT ![r].pc = "write"]
    /\ UNCHANGED <<requestVars, paths, inodes>>

\* Lines 165-166: f.write(...) writes to the file opened on line 165, whether
\* or not a path still names it, and the `with` closes it.
PairWrite(r) ==
    /\ reqs[r].pc = "write"
    /\ inodes' = [inodes EXCEPT ![reqs[r].fd] = r]
    /\ reqs' = [reqs EXCEPT ![r].pc = "extract", ![r].fd = "none"]
    /\ UNCHANGED <<requestVars, paths>>

\* Line 169: pdf_to_text_or_ocr(temp_path) opens the path again (lines 26 and
\* 40) and reads what it names now.
PairExtract(r) ==
    /\ reqs[r].pc = "extract"
    /\ LET path == TempPath(reqs[r].filename)
       IN  reqs' = [reqs EXCEPT
                      ![r].pc = "classify",
                      ![r].seen = IF paths[path] = "none" THEN "missing"
                                  ELSE inodes[paths[path]]]
    /\ UNCHANGED <<requestVars, paths, inodes>>

\* Line 172: the text passed to get_json_from_openai is the text of the bytes
\* read, or "" when both opens failed (lines 34 and 67).
PairClassify(r) ==
    /\ reqs[r].pc = "classify"
    /\ reqs' = [reqs EXCEPT
                  ![r].pc = "remove",
                  ![r].sent = IF reqs[r].seen \in Requests
                              THEN reqs[r].seen ELSE ""]
    /\ UNCHANGED <<requestVars, paths, inodes>>

\* Line 175: os.remove(temp_path) unlinks whatever file the path names and
\* raises FileNotFoundError when it names none (lines 185-186).
PairRemove(r) ==
    /\ reqs[r].pc = "remove"
    /\ LET path == TempPath(reqs[r].filename)
       IN  IF paths[path] = "none"
           THEN /\ reqs' = [reqs EXCEPT ![r].pc = "done", ![r].status = 500]
                /\ paths' = paths
           ELSE /\ reqs' = [reqs EXCEPT ![r].pc = "respond",
                                        ![r].removed = paths[path]]
                /\ paths' = [paths EXCEPT ![path] = "none"]
    /\ UNCHANGED <<requestVars, inodes>>

\* Lines 178-183.
PairRespond(r) ==
    /\ reqs[r].pc = "respond"
    /\ reqs' = [reqs EXCEPT ![r].pc = "done", ![r].status = 200]
    /\ UNCHANGED <<requestVars, paths, inodes>>

\* Two uploads whose filenames may or may not be the same; the working
\* directory holds no temp file yet.
InitPair ==
    /\ RequestInit
    /\ numPages = 0
    /\ reqs \in [Requests -> {NewRequest(n) : n \in Filenames}]
    /\ paths = [p \in {TempPath(n) : n \in Filenames} |-> "none"]
    /\ inodes = [f \in Requests |-> "empty"]

NextPair ==
    \E r \in Requests :
        \/ PairOpen(r)
        \/ PairRead(r)
        \/ PairWrite(r)
        \/ PairExtract(r)
        \/ PairClassify(r)
        \/ PairRemove(r)
        \/ PairRespond(r)

SpecPair == InitPair /\ [][NextPair]_vars

----------------------------------------------------------------------------
\* Properties

\* pdf_to_text_or_ocr has returned.
ExtractionReturned == pc = "classify" \/ classifyCalls > 0

\* Line 37 has been executed.
TextChecked ==
    pc \in {"fitz_open", "ocr_page", "return_text"} \/ ExtractionReturned

\* The text layer was found non-empty after trimming on line 37.
HasTextLayer == TextChecked /\ Strip(layerText) # <<>>

\* The text layer was found empty after trimming on line 37.
EmptyTextLayer == TextChecked /\ Strip(layerText) = <<>>

\* pdf_to_text_or_ocr has just returned (line 70) to line 169.
AtReturn == pc = "classify"

\* The request took the OCR path and the document was opened for it.
OcrPath == AtReturn /\ fitzOpen

\* Page indices for which an OCR loop iteration was started.
AttemptedPages == {ocrLog[k].page : k \in 1..Len(ocrLog)}

\* OCR model calls issued so far.
OcrModelCalls == {k \in 1..Len(ocrLog) : ModelCalled(ocrLog[k].out)}

\* The OCR iteration with outcome v raised.
OcrFailed(v) == v.kind \in {"render_error", "call_error"}

\* The segment one page contributes: its text and a line break, or nothing.
Segment(v) ==
    IF v.kind = "text" /\ Len(v.val) > 0 THEN v.val \o <<"\n">> ELSE <<>>

\* C1: when the text layer is non-empty after trimming, no OCR iteration is
\* ever run, no OCR model call is made, the document is never opened for
\* rasterization, and the returned text is the trimmed text-layer result.
C1_NoOcrWithTextLayer ==
    HasTextLayer =>
        /\ ocrLog = <<>>
        /\ OcrModelCalls = {}
        /\ ~fitzOpened
        /\ ~fitzOpen
        /\ AtReturn => extracted = Strip(layerText)

C1_Witness ==
    /\ AtReturn
    /\ numPages = 2
    /\ HasTextLayer
    /\ extracted = <<"a", "\n", "b">>

\* C2 as stated: when the text layer is empty after trimming, an OCR attempt
\* has been started for every page index by the time extraction returns.
C2_OcrEveryPage ==
    (ExtractionReturned /\ EmptyTextLayer) =>
        AttemptedPages = 0..(numPages - 1)

\* C2 amended: when the text layer is empty after trimming, fitz.open is
\* called; if it opens the document, an OCR attempt has been started exactly
\* once for every page index by the time extraction returns, and if it
\* raises, no page is attempted and the text returned is empty.
C2_OcrEveryPageIfOpened ==
    (ExtractionReturned /\ EmptyTextLayer) =>
        /\ fitzOpened
        /\ fitzOpen =>
              /\ AttemptedPages = 0..(numPages - 1)
              /\ Len(ocrLog) = numPages
        /\ ~fitzOpen => (ocrLog = <<>> /\ extracted = <<>>)

C2_Witness ==
    /\ pc = "done"
    /\ EmptyTextLayer
    /\ fitzOpen
    /\ numPages = 3
    /\ AttemptedPages = {0, 1, 2}
    /\ ocrLog[2].out.kind = "render_error"

\* The outcome logged for page p.
OcrOutcomeOfPage(p) ==
    (CHOOSE e \in {ocrLog[k] : k \in 1..Len(ocrLog)} : e.page = p).out

\* Segments of pages p, p+1, ..., numPages-1, in ascending page index.
RECURSIVE OcrJoinFrom(_)
OcrJoinFrom(p) ==
    IF p >= numPages THEN <<>>
    ELSE Segment(OcrOutcomeOfPage(p)) \o OcrJoinFrom(p + 1)

\* C3: on the OCR path the extracted text is the (trimmed) concatenation of
\* the per-page OCR texts in ascending page index.
C3_OcrInPageOrder ==
    OcrPath => extracted = Strip(OcrJoinFrom(0))

C3_Witness ==
    /\ OcrPath
    /\ numPages = 3
    /\ layerText = <<" ", "\n">>
    /\ extracted = <<"c", "\n", " ", "d", "\n", "c">>

\* Segments of a log, a page whose OCR raised contributing an empty line.
RECURSIVE JoinWithEmptyLines(_)
JoinWithEmptyLines(log) ==
    IF log = <<>> THEN <<>>
    ELSE (IF OcrFailed(Head(log).out) THEN <<"\n">>
          ELSE Segment(Head(log).out))
         \o JoinWithEmptyLines(Tail(log))

\* Segments of a log, in log order.
RECURSIVE JoinLog(_)
JoinLog(log) ==
    IF log = <<>> THEN <<>>
    ELSE Segment(Head(log).out) \o JoinLog(Tail(log))

\* The log without the pages whose OCR raised.
Succeeded(log) == SelectSeq(log, LAMBDA e : ~OcrFailed(e.out))

\* C4 as stated: on the OCR path a page whose OCR call fails contributes an
\* empty line at its own position in the extracted text.
C4_FailedPageEmptyLine ==
    OcrPath => extracted = Strip(JoinWithEmptyLines(ocrLog))

\* C4 amended: on the OCR path a page whose OCR call fails contributes
\* nothing, not even a line break: the extracted text is what the pages that
\* did not fail give alone, all of them, in order.
C4_FailedPageContributesNothing ==
    OcrPath => extracted = Strip(JoinLog(Succeeded(ocrLog)))

C4_Witness ==
    /\ OcrPath
    /\ numPages = 3
    /\ ocrLog[1].out.kind = "text"
    /\ ocrLog[2].out.kind = "call_error"
    /\ ocrLog[3].out.kind = "text"
    /\ extracted = <<"c", "\n", "c">>

\* Lines 178-183 ran on a str answer of the classification model.
NormalizedAnswer == pc = "done" /\ normalized /\ result.type = "str"

\* s is a JSON text: json.loads accepts it and the value is not the nan
\* that only Python's parser accepts.
ValidJson(s) == JsonLoads(s).ok /\ JsonLoads(s).value.kind # "nan"

\* Keys of the response body.
BodyKeys == {p[1] : p \in response.body.members}

\* The tokens of a sequence.
Tokens(s) == {s[k] : k \in 1..Len(s)}

\* C5: an answer that is a string and is not valid JSON is answered with
\* exactly {"raw_response": s}, s being the answer unmodified, under a
\* success status.
C5_InvalidJsonWrapped ==
    (NormalizedAnswer /\ ~ValidJson(result.val)) =>
        /\ response.status = 200
        /\ response.body.kind = "object"
        /\ response.body.members = {<<"raw_response", result.val>>}

C5_Witness ==
    /\ NormalizedAnswer
    /\ result.val = <<"{", "G", ",", "Ct", "\n">>
    /\ response.body.members = {<<"raw_response", <<"{", "G", ",", "Ct", "\n">>>>}

\* C6: an answer that is valid JSON matching the ClassificationResult
\* schema is answered with its parsed value: exactly the members the answer
\* holds, with their values, and no raw_response or error envelope.
C6_ValidJsonUnchanged ==
    (/\ NormalizedAnswer
     /\ ValidJson(result.val)
     /\ MatchesSchema(JsonLoads(result.val).value)) =>
        /\ response.status = 200
        /\ response.body = JsonLoads(result.val).value
        /\ BodyKeys = SchemaKeys
        /\ \A tok \in MemberTokens :
              tok \in Tokens(result.val) <=>
                 <<MemberKey(tok), MemberVal(tok)>> \in response.body.members

C6_Witness ==
    /\ NormalizedAnswer
    /\ result.val = <<" ", "{", "M", ",", " ", "Cf", ",", "G", "}", "\n">>
    /\ <<"candidato", <<"false">>>> \in response.body.members
    /\ Cardinality(response.body.members) = 3

\* C7 as stated: when the classification model call fails, the final result
\* of the request (here: of a request whose lines 178-183 ran) is exactly
\* {"error": "model_call_failed"}.
C7_ModelCallFailedBody ==
    (pc = "done" /\ classifyFailed /\ normalized) =>
        response.body = JsonObject({<<"error", <<"model_call_failed">>>>})

\* C7 amended: when the classification model call fails,
\* get_json_from_openai returns {"error": "openai_failed", "raw_response":
\* ""} without raising, and the final result of the request is exactly that
\* value under a success status, or, when removing the temporary file
\* raised, the error body of that exception under status 500.
C7_OpenAIFailedBody ==
    classifyFailed =>
        /\ result = DictResult
        /\ pc \in {"remove_temp", "respond", "except", "done"}
        /\ exc \in {<<>>, <<"remove_failed">>}
        /\ (pc = "done" /\ normalized) =>
              /\ response.status = 200
              /\ response.body.kind = "object"
              /\ response.body.members =
                    {<<"error", <<"openai_failed">>>>, <<"raw_response", <<>>>>}
        /\ (pc = "done" /\ ~normalized) =>
              response = ExceptResponse(<<"remove_failed">>)

C7_Witness ==
    /\ pc = "done"
    /\ classifyFailed
    /\ normalized
    /\ response.body = OpenAIFailedDict

\* C8: in every terminal state of a request that created the temporary
\* copy of the upload, the copy no longer exists.
C8_TempFileRemoved ==
    (pc = "done" /\ tempCreated) => ~fileExists

\* C9: an exception raised in procesar_cv is answered with the body
\* {"error": <message>} under a non-success status, and every request that
\* ends has a response.
C9_ExceptionAnswered ==
    /\ exc # <<>> => pc \in {"except", "done"}
    /\ pc = "done" => response # NoResponse
    /\ (pc = "done" /\ exc # <<>>) =>
          /\ response.status >= 400
          /\ response.body.kind = "object"
          /\ response.body.members = {<<"error", exc>>}
          /\ ~normalized

C9_Witness ==
    /\ pc = "done"
    /\ exc = <<"write_failed">>
    /\ response.status = 500
    /\ response.body.members = {<<"error", <<"write_failed">>>>}

\* Segments of text-layer pages k, k+1, ..., in ascending page order.
RECURSIVE LayerJoinFrom(_)
LayerJoinFrom(k) ==
    IF k > Len(layerLog) THEN <<>>
    ELSE Segment(layerLog[k]) \o LayerJoinFrom(k + 1)

\* C10: on the text-layer path the result is the trimmed concatenation, in
\* ascending page order, of the text layers of the pages that have one and
\* can be read; every page was visited and OCR was skipped.
C10_TextLayerInPageOrder ==
    (AtReturn /\ HasTextLayer) =>
        /\ Len(layerLog) = numPages
        /\ extracted = Strip(LayerJoinFrom(1))
        /\ ocrLog = <<>>

C10_Witness ==
    /\ AtReturn
    /\ HasTextLayer
    /\ numPages = 3
    /\ layerLog[1].kind = "error"
    /\ layerLog[2].val = <<"b", " ">>
    /\ layerLog[3].kind = "none"
    /\ extracted = <<"b">>
    /\ ocrLog = <<>>

\* C11: for a document the text-layer reader cannot open, no exception is
\* raised and the text layer counts as empty; the OCR fallback is entered,
\* and when the rasterizer cannot open the document either, the empty
\* string is returned; the request goes on to the classification call.
C11_UnopenableDocument ==
    plumberFailed =>
        /\ layerLog = <<>>
        /\ pc \notin {"open_temp", "write_temp", "plumber_open", "layer_page"}
        /\ exc \in {<<>>, <<"remove_failed">>}
        /\ TextChecked =>
              /\ layerText = <<>>
              /\ pc = "fitz_open" \/ fitzOpened
        /\ (ExtractionReturned /\ ~fitzOpen) =>
              (extracted = <<>> /\ ocrLog = <<>>)
        /\ pc \in {"remove_temp", "respond", "except", "done"} =>
              classifyCalls = 1
        /\ (pc = "done" /\ exc = <<>>) => (normalized /\ response.status = 200)

C11_Witness ==
    /\ pc = "done"
    /\ numPages = 2
    /\ plumberFailed
    /\ fitzOpened
    /\ ~fitzOpen
    /\ extracted = <<>>
    /\ classifyCalls = 1
    /\ normalized
    /\ response.status = 200

\* The member tokens of the answer.
AnswerMembers == Tokens(result.val) \cap MemberTokens

\* C12 as stated: every parsed result returned to the caller (here: one
\* with the three top-level keys of the schema) holds informacion_general
\* with every fixed CandidateProfile field.
C12_ProfileFieldsPresent ==
    (/\ NormalizedAnswer
     /\ ValidJson(result.val)
     /\ MatchesSchema(JsonLoads(result.val).value)) =>
        <<"informacion_general", ProfileFields>> \in response.body.members

\* C12 amended: the fixed fields and their defaults are only asked of the
\* model in the prompt; a parsed result is returned with exactly the keys
\* the answer holds, and informacion_general, when present, is the one the
\* answer holds: no field is added or defaulted.
C12_NoFieldDefaulted ==
    (NormalizedAnswer /\ ValidJson(result.val)) =>
        /\ BodyKeys = {MemberKey(tok) : tok \in AnswerMembers}
        /\ \A q \in response.body.members :
              q[1] = "informacion_general" =>
                 \E tok \in AnswerMembers \cap {"G", "Gn"} : q[2] = MemberVal(tok)

C12_Witness ==
    /\ NormalizedAnswer
    /\ result.val = <<"{", "Gn", ",", "Ct", ",", "M", "}">>
    /\ <<"informacion_general", <<"nombre">>>> \in response.body.members
    /\ BodyKeys = SchemaKeys

\* a occurs in b as a run of consecutive elements.
IsInfix(a, b) ==
    \E i \in 0..(Len(b) - Len(a)) : SubSeq(b, i + 1, i + Len(a)) = a

\* Positions of the OCR log whose iteration raised.
FailedEntries == {k \in 1..Len(ocrLog) : OcrFailed(ocrLog[k].out)}

\* C13: on the OCR path a failure while processing page i never leaves
\* the loop and never reaches the caller: every other page j is still
\* attempted, and its text, if any, is in the result.
C13_FailureIsolated ==
    /\ (pc = "ocr_page" /\ FailedEntries # {}) =>
          (idx = Len(ocrLog) /\ exc = <<>>)
    /\ (OcrPath /\ FailedEntries # {}) =>
          /\ exc = <<>>
          /\ extracted = Strip(text)
          /\ \A k \in FailedEntries :
                \A j \in (0..(numPages - 1)) \ {ocrLog[k].page} :
                   \E m \in 1..Len(ocrLog) :
                      /\ ocrLog[m].page = j
                      /\ IsInfix(Segment(ocrLog[m].out), text)
                      /\ IsInfix(Strip(Segment(ocrLog[m].out)), extracted)

C13_Witness ==
    /\ OcrPath
    /\ numPages = 3
    /\ ocrLog[1].out.kind = "render_error"
    /\ ocrLog[2].out.val = <<"c">>
    /\ ocrLog[3].out.val = <<" ", "d">>
    /\ extracted = <<"c", "\n", " ", "d">>

\* C14: nothing is retried: at most one OCR iteration and one OCR model
\* call per page index, at most one classification model call, at most one
\* opening and one pass of the text layer, at most one opening for OCR.
C14_NothingRetried ==
    /\ classifyCalls <= 1
    /\ plumberOpens <= 1
    /\ fitzOpens <= 1
    /\ Len(layerLog) <= numPages
    /\ \A p \in 0..(numPages - 1) :
          Cardinality({k \in 1..Len(ocrLog) : ocrLog[k].page = p}) <= 1
    /\ \A k \in 1..Len(ocrLog) : ocrLog[k].page \in 0..(numPages - 1)

C14_Witness ==
    /\ pc = "done"
    /\ numPages = 2
    /\ plumberFailed
    /\ plumberOpens = 1
    /\ fitzOpens = 1
    /\ Len(ocrLog) = 2
    /\ ocrLog[1].out.kind = "call_error"
    /\ ocrLog[2].out.kind = "render_error"
    /\ classifyFailed
    /\ classifyCalls = 1

\* Positions of the request inside pdf_to_text_or_ocr.
ExtractionPcs ==
    {"plumber_open", "layer_page", "check_text", "fitz_open", "ocr_page",
     "return_text"}

\* C15: the stages of a request never overlap: the classification call is
\* made only after extraction has returned, every OCR iteration of the
\* request being over, and on the text it returned; the answer is
\* normalized only after the classification call has returned.
C15_StagesOrdered ==
    /\ pc \in ExtractionPcs => (classifyCalls = 0 /\ ~normalized)
    /\ classifyCalls > 0 =>
          /\ pc \in {"remove_temp", "respond", "except", "done"}
          /\ ~plumberOpen
          /\ sent = extracted
          /\ fitzOpen => Len(ocrLog) = numPages
          /\ ~fitzOpen => ocrLog = <<>>
    /\ pc = "respond" => classifyCalls = 1
    /\ normalized => (classifyCalls = 1 /\ pc = "done")

C15_Witness ==
    /\ pc = "done"
    /\ normalized
    /\ classifyCalls = 1
    /\ fitzOpen
    /\ numPages = 3
    /\ Len(ocrLog) = 3
    /\ sent = <<"c">>

\* C19: a request that reaches extraction issues the classification call
\* exactly once, on the text extraction returned, the empty text included.
C19_ClassifiedOnce ==
    (plumberOpens > 0 /\ pc \in {"remove_temp", "respond", "except", "done"}) =>
        /\ classifyCalls = 1
        /\ sent = extracted

C19_Witness ==
    /\ pc = "done"
    /\ numPages = 2
    /\ fitzOpen
    /\ Len(ocrLog) = 2
    /\ extracted = <<>>
    /\ sent = <<>>
    /\ classifyCalls = 1
    /\ normalized
    /\ result.type = "str"
    /\ MatchesSchema(response.body)

StageOrder ==
    <<"done", "except", "respond", "remove_temp", "classify", "return_text",
      "ocr_page", "fitz_open", "check_text", "layer_page", "plumber_open",
      "write_temp", "open_temp">>

\* The number of statements and loop iterations a request has ahead of it,
\* at most: the stage of pc, and inside a page loop the pages left.
Rank ==
    LET stage == CHOOSE k \in 1..Len(StageOrder) : StageOrder[k] = pc
        left == IF pc \in {"layer_page", "ocr_page"} THEN numPages - idx ELSE 0
    IN  stage * (numPages + 1) + left

\* A request that has not ended can take a step.  Respond has no condition
\* besides its position: its step exists when the response it assigns does.
CanStep ==
    IF pc = "respond"
    THEN Normalize(result).status \in {200, 500}
    ELSE ENABLED Next

\* C17: a request runs to completion: before its end a step is always
\* possible, every step lowers a rank that is a natural number, so that a
\* request whose calls all return or raise ends after finitely many steps;
\* it has a response exactly when it has ended, and the response never
\* changes afterwards.
C17_RunsToCompletion ==
    /\ [](pc # "done" => CanStep)
    /\ [](Rank \in Nat /\ (pc = "done" <=> response # NoResponse))
    /\ [][/\ Rank' < Rank
          /\ response # NoResponse => response' = response]_vars

C17_Witness ==
    /\ pc = "done"
    /\ numPages = 3
    /\ Len(layerLog) = 3
    /\ Len(ocrLog) = 3
    /\ response.status = 200

\* What a request does when it runs alone: it opens a file it creates, reads
\* its own bytes back, classifies their text, removes the file it created
\* and answers 200.
RanAsAlone(r) ==
    /\ reqs[r].fd \in {"none", r}
    /\ reqs[r].seen \in {"unread", r}
    /\ reqs[r].sent \in {"unsent", r}
    /\ reqs[r].removed \in {"none", r}
    /\ reqs[r].pc = "done" => reqs[r].status = 200

\* C18: for any interleaving of two in-flight requests, two uploads with the
\* same filename included, each request extracts text from its own bytes,
\* removes only its own temporary copy, and ends as if it had run alone.
C18_RequestsIsolated == \A r \in DOMAIN reqs : RanAsAlone(r)

====
